---- MODULE Spec2Model ----
(***************************************************************************)
(* requeuest: a queue of HTTP requests on top of the sqlxmq job engine.    *)
(*                                                                         *)
(* The model covers the Client's four spawn operations (src/src/client.rs),*)
(* the enqueue loop retrying_spawn, the two job executors http and         *)
(* http_response (src/src/job.rs), the ResponseSender map that carries a   *)
(* response from the executor back to the waiting caller, and the          *)
(* acceptance policy of a Request (src/src/request.rs).                    *)
(*                                                                         *)
(* The job engine (sqlxmq), the database and the HTTP server are the       *)
(* environment: the engine hands a stored job to a worker while the job    *)
(* has attempts left, the database answers an insert with success, a       *)
(* retryable conflict or a fatal error, and the server answers a request   *)
(* with a status or the transport fails.  All calls use one channel.       *)
(***************************************************************************)
EXTENDS Integers, Sequences, FiniteSets, TLC

\* ------------------------------------------------------------------ bounds
MaxCalls == 2        \* concurrent client calls made in one run of the queue
MaxRetries == 3       \* largest retry count of the retry scenario
MaxRetryExec == 5     \* executions the runner may give a job of that scenario
MaxPolicyExec == 1    \* executions the runner gives a job of the policy scenario
MaxOrdered == 3      \* calls made one after another in one run of a scenario
NumWorkers == 2      \* concurrent executions the job runner has
MaxExec == 2         \* executions the engine starts for one job
MaxCfgRetries == 0   \* largest retry count a configuration callback sets
MaxFaults == 2       \* failures of the environment in one run: insert
                     \* conflicts and errors, transport and completion
                     \* failures, process restarts
MaxConflicts == 5     \* errors the database answers the inserts of the
                     \* enqueue scenario with

\* default_job_proto: set_retries(100_000)
DefaultRetries == 100000

\* The calls of a run and the job ids they draw; Callers are the calls that
\* run concurrently.
Calls == 1 .. (IF MaxOrdered > MaxCalls THEN MaxOrdered ELSE MaxCalls)
Callers == 1 .. MaxCalls
Ids == Calls
Workers == 1 .. NumWorkers

\* ------------------------------------------------- request: accept policy
Variant(kind, min, max) == [kind |-> kind, min |-> min, max |-> max]
Informational == Variant("Informational", 0, 0)
Success == Variant("Success", 0, 0)
Redirection == Variant("Redirection", 0, 0)
ClientError == Variant("ClientError", 0, 0)
ServerError == Variant("ServerError", 0, 0)
Single(code) == Variant("Single", code, code)
Range(min, max) == Variant("Range", min, max)

\* accepts with a Range that leaves its upper end out.
AcceptsHalfOpen(v, status) ==
    CASE v.kind = "Informational" -> 200 > status /\ status >= 100
      [] v.kind = "Success" -> 300 > status /\ status >= 200
      [] v.kind = "Redirection" -> 400 > status /\ status >= 300
      [] v.kind = "ClientError" -> 500 > status /\ status >= 400
      [] v.kind = "ServerError" -> 600 > status /\ status >= 500
      [] v.kind = "Single" -> status = v.min
      [] v.kind = "Range" -> status >= v.min /\ status < v.max

\* AcceptedResponse::accepts; StatusCode::is_success() is 300 > code >= 200
\* and likewise for the other classes.
accepts(v, status) ==
    CASE v.kind = "Informational" -> 200 > status /\ status >= 100
      [] v.kind = "Success" -> 300 > status /\ status >= 200
      [] v.kind = "Redirection" -> 400 > status /\ status >= 300
      [] v.kind = "ClientError" -> 500 > status /\ status >= 400
      [] v.kind = "ServerError" -> 600 > status /\ status >= 500
      [] v.kind = "Single" -> status = v.min
      [] v.kind = "Range" -> status >= v.min /\ status <= v.max

\* A default that also accepts the client errors.
DefaultWithClientErrors == {Success, ClientError}

default_accepted_responses == {Success}

\* The executors' test: any variant of the set accepts the status.
AcceptedAll(accept_responses, status) ==
    \A v \in accept_responses : accepts(v, status)

\* A test that takes every status for an accepted one.
AcceptedAlways(accept_responses, status) ==
    status = status /\ accept_responses = accept_responses

Accepted(accept_responses, status) ==
    \E v \in accept_responses : accepts(v, status)

\* The acceptance sets of the requests the callers pass, and the statuses
\* the server answers with: 200 is accepted by one variant of the set and
\* not by the other, 500 by none.
Policies == {{Success, Single(404)}}
Statuses == {200, 500}

\* ------------------------------------------------- request: the Request
\* Option<Vec<u8>>: None is the empty sequence, Some(b) the sequence <<b>>.
None == <<>>
Some(b) == <<b>>

\* HeaderMap: header name -> the sequence of its values.
NoHeaders == [n \in {} |-> <<>>]

\* struct Request, its fields in the order of declaration.
Request(url, body, method, headers, accept_responses) ==
    [url |-> url, body |-> body, method |-> method, headers |-> headers,
     accept_responses |-> accept_responses]

\* The requests the callers of the queue model pass: one GET per acceptance
\* set.
Requests == {Request("/", None, "GET", NoHeaders, p) : p \in Policies}

\* ---------------------------------------- request: bincode (de)serialize
\* The payload is the sequence of the fields' encodings in the order of
\* declaration: a string is one token, a byte vector its length and its
\* bytes, an Option a tag and the value, a map or a set its size and its
\* entries (in some order of iteration), an enum variant its index and its
\* fields.
RECURSIVE SetToSeq(_)
SetToSeq(S) ==
    IF S = {} THEN <<>>
    ELSE LET x == CHOOSE y \in S : TRUE IN <<x>> \o SetToSeq(S \ {x})

RECURSIVE Flatten(_)
Flatten(seqs) == IF seqs = <<>> THEN <<>> ELSE Head(seqs) \o Flatten(Tail(seqs))

VariantIndex(kind) ==
    CASE kind = "Informational" -> 0
      [] kind = "Success" -> 1
      [] kind = "Redirection" -> 2
      [] kind = "ClientError" -> 3
      [] kind = "ServerError" -> 4
      [] kind = "Single" -> 5
      [] kind = "Range" -> 6

SerBytes(b) == <<Len(b)>> \o b

SerOption(o) == IF o = None THEN <<0>> ELSE <<1>> \o SerBytes(o[1])

SerVariant(v) ==
    CASE v.kind = "Single" -> <<VariantIndex(v.kind), v.min>>
      [] v.kind = "Range" -> <<VariantIndex(v.kind), v.min, v.max>>
      [] OTHER -> <<VariantIndex(v.kind)>>

\* http_serde::header_map: a map from the name to the sequence of values.
SerHeaders(h) ==
    LET names == SetToSeq(DOMAIN h)
    IN  <<Len(names)>> \o
        Flatten([i \in DOMAIN names |-> <<names[i], Len(h[names[i]])>> \o h[names[i]]])

SerPolicy(set) ==
    LET vs == SetToSeq(set)
    IN  <<Len(vs)>> \o Flatten([i \in DOMAIN vs |-> SerVariant(vs[i])])

\* The payload with the acceptance set left out (what a format that skips
\* the field would write).
SerializeWithoutPolicy(r) ==
    <<r.url>> \o SerOption(r.body) \o <<r.method>> \o SerHeaders(r.headers)
        \o SerPolicy(default_accepted_responses)

serialize(r) ==
    <<r.url>> \o SerOption(r.body) \o <<r.method>> \o SerHeaders(r.headers)
        \o SerPolicy(r.accept_responses)

\* The parsers return the value read and the rest of the payload, or fail
\* where the payload ends early or a tag is none of the type's.
Parsed(val, rest) == [ok |-> TRUE, val |-> val, rest |-> rest]
Failed == [ok |-> FALSE, val |-> <<>>, rest |-> <<>>]
Drop(p, n) == SubSeq(p, n + 1, Len(p))

\* What f makes of a parsed value, the value being computed once; a failure
\* is passed on (the ? of the derived Deserialize).
Then(parsed, f(_)) ==
    CHOOSE r \in {IF x.ok THEN f(x) ELSE Failed : x \in {parsed}} : TRUE

ParseStr(p) == IF Len(p) >= 1 THEN Parsed(p[1], Drop(p, 1)) ELSE Failed

ParseBytes(p) ==
    IF Len(p) >= 1 /\ Len(p) >= p[1] + 1
    THEN Parsed(SubSeq(p, 2, p[1] + 1), Drop(p, p[1] + 1))
    ELSE Failed

ParseOption(p) ==
    IF Len(p) = 0 THEN Failed
    ELSE IF p[1] = 0 THEN Parsed(None, Drop(p, 1))
    ELSE IF p[1] = 1
         THEN Then(ParseBytes(Drop(p, 1)), LAMBDA b : Parsed(Some(b.val), b.rest))
         ELSE Failed

ParseVariant(p) ==
    IF Len(p) = 0 THEN Failed
    ELSE CASE p[1] = 0 -> Parsed(Informational, Drop(p, 1))
           [] p[1] = 1 -> Parsed(Success, Drop(p, 1))
           [] p[1] = 2 -> Parsed(Redirection, Drop(p, 1))
           [] p[1] = 3 -> Parsed(ClientError, Drop(p, 1))
           [] p[1] = 4 -> Parsed(ServerError, Drop(p, 1))
           [] p[1] = 5 /\ Len(p) >= 2 -> Parsed(Single(p[2]), Drop(p, 2))
           [] p[1] = 6 /\ Len(p) >= 3 -> Parsed(Range(p[2], p[3]), Drop(p, 3))
           [] OTHER -> Failed

RECURSIVE ParseEntries(_, _, _)
ParseEntries(n, p, acc) ==
    IF n = 0 THEN Parsed(acc, p)
    ELSE IF Len(p) >= 2 /\ Len(p) >= 2 + p[2]
         THEN ParseEntries(n - 1, Drop(p, 2 + p[2]),
                           (p[1] :> SubSeq(p, 3, 2 + p[2])) @@ acc)
         ELSE Failed

ParseHeaders(p) ==
    IF Len(p) >= 1 THEN ParseEntries(p[1], Drop(p, 1), NoHeaders) ELSE Failed

RECURSIVE ParseVariants(_, _, _)
ParseVariants(n, p, acc) ==
    IF n = 0 THEN Parsed(acc, p)
    ELSE Then(ParseVariant(p),
              LAMBDA v : ParseVariants(n - 1, v.rest, acc \cup {v.val}))

ParsePolicy(p) ==
    IF Len(p) >= 1 THEN ParseVariants(p[1], Drop(p, 1), {}) ELSE Failed

\* bincode::deserialize(payload): Ok(Request), in val, or an error.
deserialize(p) ==
    Then(ParseStr(p), LAMBDA url :
    Then(ParseOption(url.rest), LAMBDA body :
    Then(ParseStr(body.rest), LAMBDA method :
    Then(ParseHeaders(method.rest), LAMBDA headers :
    Then(ParsePolicy(headers.rest), LAMBDA accept_responses :
        Parsed(Request(url.val, body.val, method.val, headers.val,
                       accept_responses.val),
               accept_responses.rest))))))

\* ------------------------------------------------ executors: the HTTP call
\* client.request(method, url): a call with no headers and no body.
client_request(method, url) ==
    [method |-> method, url |-> url, headers |-> NoHeaders, body |-> None]

with_headers(call, headers) == [call EXCEPT !.headers = headers]

\* if let Some(body) = request.body { builder = builder.body(body) }
with_body(call, body) == IF body # None THEN [call EXCEPT !.body = body] ELSE call

\* A call built without the request's headers.
HttpCallWithoutHeaders(name, request) ==
    with_body(client_request(request.method, request.url), request.body)

\* The call each executor builds from the deserialized request.
HttpCall(name, request) ==
    IF name = "http"
    THEN with_body(with_headers(client_request(request.method, request.url),
                                request.headers), request.body)
    ELSE with_body(client_request(request.method, request.url), request.body)

\* --------------------------------------------------------------- programs
Kinds == {"spawn", "spawn_cfg", "spawn_returning", "spawn_returning_cfg"}
Returning == {"spawn_returning", "spawn_returning_cfg"}

\* The statements of a spawn operation, in program order.  "register" puts
\* the sender into the map, "build" builds the job (prototype, callback,
\* serialized request), "insert" is retrying_spawn, "await" is
\* receiver.await.
EnqueueFirst(kind) ==
    IF kind \in Returning
    THEN <<"build", "insert", "register", "await">>
    ELSE <<"build", "insert">>

ClientProg(kind) ==
    IF kind \in Returning
    THEN <<"register", "build", "insert", "await">>
    ELSE <<"build", "insert">>

\* The statements of an executor after the job was handed to it.
\* "dispatch" deserializes the payload, sends the request and tests the
\* response; the rest is the body of the `if`.
ResolveFirst(name) ==
    IF name = "http_response"
    THEN <<"dispatch", "remove", "send", "complete">>
    ELSE <<"dispatch", "complete">>

RemoveWithoutSend(name) ==
    IF name = "http_response"
    THEN <<"dispatch", "complete", "remove">>
    ELSE <<"dispatch", "complete">>

JobProg(name) ==
    IF name = "http_response"
    THEN <<"dispatch", "complete", "remove", "send">>
    ELSE <<"dispatch", "complete">>

\* ------------------------------------------------------------------ state
VARIABLES
    ckind,      \* call -> the operation called, "none" before the call
    cpc,        \* call -> index of its next statement in ClientProg
    cuuid,      \* call -> the job id of the call, 0 before the call
    builder,    \* call -> the JobBuilder it built
    cins,       \* call -> insert attempts made by retrying_spawn
    cconf,      \* call -> retryable conflicts the database reported to it
    clast,      \* call -> the database's answer to its last insert attempt
    cres,       \* call -> its result, "none" while it runs
    chan,       \* call -> its oneshot channel: receiver alive, value sent
    table,      \* ResponseSender: job id -> the sender (named by its call)
    jobs,       \* mq_msgs: job id -> row; done = completed, so deleted
    created,    \* job id -> rows created for it
    lastOrdered,\* the channel's latest ordered job, 0 if none
    log,        \* job id -> statuses the server answered to its dispatches
    resolves,   \* job id -> executions that reached the map lookup
    delivered,  \* job id -> responses sent through a oneshot sender
    wpc,        \* worker -> index of its next statement in JobProg, 0 idle
    wjob,       \* worker -> the job it executes, 0 if none
    wresp,      \* worker -> the response it holds, NoResponse if none
    wsender,    \* worker -> the sender it took from the map, 0 if none
    jres,       \* job id -> what its last finished execution returned
    sent,       \* job id -> the HTTP calls its executions issued
    faults,      \* failures of the environment so far
    restarts,   \* process restarts so far
    mutex       \* the task that holds the lock of the map, Free if none

cvars == <<ckind, cpc, cuuid, builder, cins, cconf, clast, cres>>
wvars == <<wpc, wjob, wresp, wsender>>
hvars == <<created, log, resolves, delivered, jres, sent>>
vars == <<cvars, chan, table, jobs, lastOrdered, faults, hvars, wvars, restarts,
         mutex>>

\* The tasks that take the lock of the map: a client call, an execution.
Free == <<"none", 0>>
CallTask(c) == <<"call", c>>
ExecTask(w) == <<"exec", w>>

\* A response: its status, the job it answers and which of the job's
\* dispatches it answers.
NoResponse == [status |-> 0, job |-> 0, nth |-> 0]
NoRequest == Request("", None, "", NoHeaders, {})

\* What a configuration callback sets: a retry count (-1: leaves it alone),
\* a backoff, the ordered flag and a delay ("unset": leaves it alone).
Cfg(retries, backoff, ordered, delay) ==
    [retries |-> retries, backoff |-> backoff, ordered |-> ordered, delay |-> delay]

NoCfg == Cfg(-1, "unset", "unset", "unset")

\* A JobBuilder: the job's name, payload, retry count, backoff, ordered flag
\* and delay; request, policy and cfg record the Request and the callback
\* the caller passed.
NoBuilder ==
    [name |-> "none", request |-> NoRequest, policy |-> {}, cfg |-> NoCfg,
     payload |-> None, retries |-> 0, backoff |-> "default", ordered |-> FALSE,
     delay |-> "default"]

Init ==
    /\ ckind = [c \in Calls |-> "none"]
    /\ cpc = [c \in Calls |-> 0]
    /\ cuuid = [c \in Calls |-> 0]
    /\ builder = [c \in Calls |-> NoBuilder]
    /\ cins = [c \in Calls |-> 0]
    /\ cconf = [c \in Calls |-> 0]
    /\ clast = [c \in Calls |-> "none"]
    /\ cres = [c \in Calls |-> "none"]
    /\ chan = [c \in Calls |-> [rx |-> FALSE, val |-> NoResponse]]
    /\ table = [i \in {} |-> 0]
    /\ jobs = [i \in {} |-> 0]
    /\ created = [i \in Ids |-> 0]
    /\ lastOrdered = 0
    /\ log = [i \in Ids |-> <<>>]
    /\ resolves = [i \in Ids |-> 0]
    /\ delivered = [i \in Ids |-> 0]
    /\ wpc = [w \in Workers |-> 0]
    /\ wjob = [w \in Workers |-> 0]
    /\ wresp = [w \in Workers |-> NoResponse]
    /\ wsender = [w \in Workers |-> 0]
    /\ jres = [i \in Ids |-> "none"]
    /\ sent = [i \in Ids |-> {}]
    /\ faults = 0
    /\ restarts = 0
    /\ mutex = Free

\* ------------------------------------------------------------ job builder
\* The callbacks of the queue model: nothing, a retry count or the ordered
\* flag; each one leaves spawn_cfg with a different builder.
Cfgs ==
    {Cfg(r, "unset", "unset", "unset") : r \in {-1} \cup (0 .. MaxCfgRetries)}
        \cup {Cfg(-1, "unset", "false", "unset")}

\* Those that leave spawn_returning_cfg with different builders.
ReturningCfgs == {cfg \in Cfgs : cfg.ordered = "unset"}

set_retries(b, n) == [b EXCEPT !.retries = n]
set_retry_backoff(b, d) == [b EXCEPT !.backoff = d]
set_ordered(b, o) == [b EXCEPT !.ordered = o]
set_delay(b, d) == [b EXCEPT !.delay = d]
set_raw_bytes(b, payload) == [b EXCEPT !.payload = Some(payload)]

default_job_proto(b) == set_ordered(set_retries(b, DefaultRetries), TRUE)

\* A callback whose set_retries is lost.
ApplyCfgKeepingRetries(b, cfg) ==
    LET b2 == IF cfg.backoff = "unset" THEN b ELSE set_retry_backoff(b, cfg.backoff)
        b3 == IF cfg.ordered = "unset" THEN b2 ELSE set_ordered(b2, cfg.ordered = "true")
    IN  IF cfg.delay = "unset" THEN b3 ELSE set_delay(b3, cfg.delay)

\* cfg(builder): the caller's callback acting on the builder.
ApplyCfg(b, cfg) ==
    LET b1 == IF cfg.retries = -1 THEN b ELSE set_retries(b, cfg.retries)
        b2 == IF cfg.backoff = "unset" THEN b1 ELSE set_retry_backoff(b1, cfg.backoff)
        b3 == IF cfg.ordered = "unset" THEN b2 ELSE set_ordered(b2, cfg.ordered = "true")
    IN  IF cfg.delay = "unset" THEN b3 ELSE set_delay(b3, cfg.delay)

\* job::http.builder(), job::http_response.builder_with_id(uuid)
NewBuilder(name) == [NoBuilder EXCEPT !.name = name]

\* The job each operation builds from the request and the callback.
spawn(request) ==
    default_job_proto(set_raw_bytes(NewBuilder("http"), serialize(request)))

\* spawn_cfg with the set_ordered(false) that spawn_returning_cfg ends with.
SpawnCfgUnordered(request, cfg) ==
    set_ordered(set_raw_bytes(ApplyCfg(default_job_proto(NewBuilder("http")), cfg),
                              serialize(request)),
                FALSE)

spawn_cfg(request, cfg) ==
    set_raw_bytes(ApplyCfg(default_job_proto(NewBuilder("http")), cfg),
                  serialize(request))

spawn_returning(request) ==
    default_job_proto(set_raw_bytes(NewBuilder("http_response"), serialize(request)))

spawn_returning_cfg(request, cfg) ==
    set_ordered(set_raw_bytes(ApplyCfg(default_job_proto(NewBuilder("http_response")),
                                       cfg),
                              serialize(request)),
                FALSE)

\* The builder of a call, with the Request and the callback the caller
\* passed recorded in it.
BuildJob(kind, request, cfg) ==
    LET b == CASE kind = "spawn" -> spawn(request)
               [] kind = "spawn_cfg" -> spawn_cfg(request, cfg)
               [] kind = "spawn_returning" -> spawn_returning(request)
               [] kind = "spawn_returning_cfg" -> spawn_returning_cfg(request, cfg)
    IN  [b EXCEPT !.request = request, !.policy = request.accept_responses,
                  !.cfg = cfg]

\* The callbacks a call of the kind may pass, cfgs being those on offer.
CfgChoice(kind, cfgs, returningCfgs) ==
    CASE kind = "spawn_cfg" -> cfgs
      [] kind = "spawn_returning_cfg" -> returningCfgs
      [] OTHER -> {NoCfg}

CfgsOf(kind) == CfgChoice(kind, Cfgs, ReturningCfgs)

\* Uuid::new_v4(): an id no earlier call got.
UsedUuids == {cuuid[c] : c \in Calls} \ {0}
SameUuid(used) == 1
NewUuid(used) == CHOOSE i \in Ids \ used : \A j \in Ids \ used : i <= j

\* ------------------------------------------------------------ the map
\* HashMap::insert and HashMap::remove on the SenderMap, under its mutex.
TableInsert(t, id, sender) == (id :> sender) @@ t
TableKeep(t, id) == t
\* A remove that empties the map.
TableClear(t, id) == [i \in {} |-> 0]

TableRemove(t, id) == [i \in (DOMAIN t) \ {id} |-> t[i]]

\* The sender of call c's channel is alive while the map or a worker holds it.
SenderAlive(c) ==
    \/ \E i \in DOMAIN table : table[i] = c
    \/ \E w \in Workers : wsender[w] = c

\* ------------------------------------------------------------ the client
CStep(c) ==
    IF ckind[c] # "none" /\ cres[c] = "none" /\ cpc[c] >= 1
    THEN ClientProg(ckind[c])[cpc[c]]
    ELSE "none"

\* The call returns res; its receiver, a local of the call, is dropped.
ClientReturn(c, res) ==
    /\ cres' = [cres EXCEPT ![c] = res]
    /\ chan' = [chan EXCEPT ![c].rx = FALSE]
    /\ cpc' = cpc

ClientAdvance(c) ==
    IF cpc[c] = Len(ClientProg(ckind[c]))
    THEN ClientReturn(c, "Ok")
    ELSE /\ cpc' = [cpc EXCEPT ![c] = @ + 1]
         /\ UNCHANGED <<cres, chan>>

\* A caller calls one of the four operations; the job id is drawn.
Call(c, kind) ==
    /\ ckind[c] = "none"
    /\ IF c = 1 THEN TRUE ELSE ckind[c - 1] # "none"
    /\ ckind' = [ckind EXCEPT ![c] = kind]
    /\ cpc' = [cpc EXCEPT ![c] = 1]
    /\ cuuid' = [cuuid EXCEPT ![c] = NewUuid(UsedUuids)]
    /\ UNCHANGED <<builder, cins, cconf, clast, cres, chan, table, jobs,
                   lastOrdered, hvars, wvars, faults, restarts, mutex>>

\* A guard that is kept after the statement that took it.
KeepGuard(m) == m

\* The MutexGuard is a temporary of the statement that locks: it is dropped,
\* and the lock released, at the end of that statement.
Release(m) == Free

\* self.0.lock(): the task takes the lock when no task holds it.
Lock(task, stmt) ==
    /\ stmt \in {"register", "remove"}
    /\ mutex = Free
    /\ mutex' = task
    /\ UNCHANGED <<cvars, chan, table, jobs, lastOrdered, faults, hvars,
                   wvars, restarts>>

\* let (sender, receiver) = oneshot::channel();
\* self.response_sender.lock().unwrap().insert(uuid, sender);
RegisterHolding(c, holder) ==
    /\ CStep(c) = "register"
    /\ mutex = holder
    /\ mutex' = Release(mutex)
    /\ chan' = [chan EXCEPT ![c] = [rx |-> TRUE, val |-> NoResponse]]
    /\ table' = TableInsert(table, cuuid[c], c)
    /\ cpc' = [cpc EXCEPT ![c] = @ + 1]
    /\ UNCHANGED <<ckind, cuuid, builder, cins, cconf, clast, cres, jobs,
                   lastOrdered, hvars, wvars, faults, restarts>>

Register(c) == RegisterHolding(c, Free)

\* The builder with prototype, callback and bincode::serialize(request)?;
\* a request that does not serialize ends the call with SpawnError::Serde.
BuildWith(c, requests, cfgs, returningCfgs) ==
    /\ CStep(c) = "build"
    /\ \E request \in requests, cfg \in CfgChoice(ckind[c], cfgs, returningCfgs),
          serialized \in BOOLEAN :
         IF serialized
         THEN /\ builder' = [builder EXCEPT ![c] = BuildJob(ckind[c], request, cfg)]
              /\ ClientAdvance(c)
         ELSE /\ builder' = builder
              /\ ClientReturn(c, "Serde")
    /\ UNCHANGED <<ckind, cuuid, cins, cconf, clast, table, jobs,
                   lastOrdered, hvars, wvars, faults, restarts, mutex>>

Build(c) == BuildWith(c, Requests, Cfgs, ReturningCfgs)

\* ------------------------------------------------------- retrying_spawn
\* What retrying_spawn does with the result of job.spawn(pool): "Conflict"
\* is an error sqlxmq::should_retry accepts, "Fatal" any other error.
PropagateConflict(result) ==
    CASE result = "Conflict" -> "return_err"
      [] result = "Fatal" -> "return_err"
      [] result = "Ok" -> "break"

RetryEveryError(result) ==
    CASE result = "Conflict" -> "continue"
      [] result = "Fatal" -> "continue"
      [] result = "Ok" -> "break"

retrying_spawn(result) ==
    CASE result = "Conflict" -> "continue"
      [] result = "Fatal" -> "return_err"
      [] result = "Ok" -> "break"

\* The row mq_insert creates: retries + 1 attempts; an ordered job waits
\* for the channel's latest ordered job.
NewRow(b) ==
    [name |-> b.name, request |-> b.request, policy |-> b.policy,
     payload |-> b.payload, retries |-> b.retries, backoff |-> b.backoff,
     ordered |-> b.ordered, delay |-> b.delay, attempts |-> b.retries + 1,
     after |-> IF b.ordered THEN lastOrdered ELSE 0, done |-> FALSE]

\* One turn of the loop of retrying_spawn: job.spawn(pool).await and the
\* match on its result.  The database creates the row only when it answers
\* Ok, and cannot answer Ok for an id it already holds (primary key).
InsertWithin(c, maxFaults) ==
    /\ CStep(c) = "insert"
    /\ \E result \in {"Ok", "Conflict", "Fatal"} :
         /\ result # "Ok" => faults < maxFaults
         /\ faults' = IF result # "Ok" THEN faults + 1 ELSE faults
         /\ result = "Ok" => cuuid[c] \notin DOMAIN jobs
         /\ cins' = [cins EXCEPT ![c] = @ + 1]
         /\ cconf' = [cconf EXCEPT ![c] = IF result = "Conflict" THEN @ + 1 ELSE @]
         /\ clast' = [clast EXCEPT ![c] = result]
         /\ IF result = "Ok"
            THEN /\ jobs' = (cuuid[c] :> NewRow(builder[c])) @@ jobs
                 /\ created' = [created EXCEPT ![cuuid[c]] = @ + 1]
                 /\ lastOrdered' = IF builder[c].ordered THEN cuuid[c] ELSE lastOrdered
            ELSE UNCHANGED <<jobs, created, lastOrdered>>
         /\ CASE retrying_spawn(result) = "continue" -> UNCHANGED <<cpc, cres, chan>>
              [] retrying_spawn(result) = "return_err" -> ClientReturn(c, "Sqlx")
              [] retrying_spawn(result) = "break" -> ClientAdvance(c)
    /\ UNCHANGED <<ckind, cuuid, builder, table, log, resolves, delivered,
                   jres, sent, wvars, restarts, mutex>>

Insert(c) == InsertWithin(c, MaxFaults)

\* Ok(receiver.await?): the value, or RecvError once the sender is gone.
Await(c) ==
    /\ CStep(c) = "await"
    /\ chan[c].val # NoResponse \/ ~SenderAlive(c)
    /\ ClientReturn(c, IF chan[c].val # NoResponse THEN "Ok" ELSE "Receive")
    /\ UNCHANGED <<ckind, cuuid, builder, cins, cconf, clast, table, jobs,
                   lastOrdered, hvars, wvars, faults, restarts, mutex>>

\* The caller of a returning operation drops the future of the call at one
\* of its await points.
Cancel(c) ==
    /\ ckind[c] \in Returning
    /\ CStep(c) \in {"insert", "await"}
    /\ ClientReturn(c, "cancelled")
    /\ UNCHANGED <<ckind, cuuid, builder, cins, cconf, clast, table, jobs,
                   lastOrdered, hvars, wvars, faults, restarts, mutex>>

\* ------------------------------------------------------------ the engine
Running(j) == \E w \in Workers : wpc[w] # 0 /\ wjob[w] = j

\* The job runner may hand job j to a worker: the row is there, it has
\* attempts left (and the run has executions left for it), and the ordered
\* job it waits for is gone.
ReadyWithin(j, maxExec) ==
    /\ j \in DOMAIN jobs
    /\ ~jobs[j].done
    /\ jobs[j].attempts > 0
    /\ jobs[j].retries + 1 - jobs[j].attempts < maxExec
    /\ IF jobs[j].after = 0 THEN TRUE ELSE jobs[jobs[j].after].done

Ready(j) == ReadyWithin(j, MaxExec)

\* The workers are alike; the runner uses the first idle one.
Idle(w) ==
    /\ wpc[w] = 0
    /\ \A v \in Workers : v < w => wpc[v] # 0

Start(w, j) ==
    /\ jobs' = [jobs EXCEPT ![j].attempts = @ - 1]
    /\ wpc' = [wpc EXCEPT ![w] = 1]
    /\ wjob' = [wjob EXCEPT ![w] = j]
    /\ UNCHANGED <<cvars, chan, table, lastOrdered, faults, hvars, wresp,
                   wsender, restarts, mutex>>

\* The runner polls a job no worker is running (it keeps a running job
\* alive, so the job is not handed out again meanwhile).
PollWithin(w, j, maxExec) ==
    /\ Idle(w)
    /\ ReadyWithin(j, maxExec)
    /\ ~Running(j)
    /\ Start(w, j)

Poll(w, j) == PollWithin(w, j, MaxExec)

\* A duplicate delivery: the job is handed out while an execution of it is
\* still running.
PollDup(w, j) ==
    /\ Idle(w)
    /\ Ready(j)
    /\ Running(j)
    /\ Start(w, j)

\* ---------------------------------------------------------- the executors
WStep(w) ==
    IF wpc[w] >= 1 THEN JobProg(jobs[wjob[w]].name)[wpc[w]] ELSE "none"

\* The execution returns res to the runner; what it held is dropped.
WReturn(w, res) ==
    /\ wpc' = [wpc EXCEPT ![w] = 0]
    /\ wjob' = [wjob EXCEPT ![w] = 0]
    /\ wresp' = [wresp EXCEPT ![w] = NoResponse]
    /\ wsender' = [wsender EXCEPT ![w] = 0]
    /\ jres' = [jres EXCEPT ![wjob[w]] = res]

\* The execution goes on to its next statement, holding response resp and
\* sender snd, or returns Ok after its last statement.
WAdvance(w, resp, snd) ==
    IF wpc[w] = Len(JobProg(jobs[wjob[w]].name))
    THEN WReturn(w, "Ok")
    ELSE /\ wpc' = [wpc EXCEPT ![w] = @ + 1]
         /\ wresp' = [wresp EXCEPT ![w] = resp]
         /\ wsender' = [wsender EXCEPT ![w] = snd]
         /\ UNCHANGED <<wjob, jres>>

\* A raw_bytes that reads a missing payload as an empty one.
RawBytesOrEmpty(job) == IF job.payload = None THEN Some(<<>>) ELSE job.payload

\* job.raw_bytes(): the payload of the row, None if it has none.
raw_bytes(job) == job.payload

\* The call built from the request is sent (builder.send().await?) and the
\* status of the response is tested against the request's accept_responses;
\* outcome 0 is a transport failure, statuses are the answers the server may
\* give.
SendRequest(w, request, statuses) ==
    /\ sent' = [sent EXCEPT ![wjob[w]] =
                   @ \cup {HttpCall(jobs[wjob[w]].name, request)}]
    /\ \E outcome \in {0} \cup statuses :
         IF outcome = 0
         THEN /\ faults < MaxFaults
              /\ faults' = faults + 1
              /\ WReturn(w, "Transport")
              /\ log' = log
         ELSE /\ faults' = faults
              /\ log' = [log EXCEPT ![wjob[w]] = Append(@, outcome)]
              /\ IF Accepted(request.accept_responses, outcome)
                 THEN WAdvance(w, [status |-> outcome, job |-> wjob[w],
                                   nth |-> Len(log[wjob[w]]) + 1], wsender[w])
                 ELSE WReturn(w, "Ok")

\* The payload is validated first: a row without payload ends the execution
\* with JobError::MissingRequest, a payload that does not deserialize with
\* the error of bincode; then the request is sent.
DispatchWith(w, statuses) ==
    /\ WStep(w) = "dispatch"
    /\ IF raw_bytes(jobs[wjob[w]]) = None
       THEN /\ WReturn(w, "MissingRequest")
            /\ UNCHANGED <<sent, log, faults>>
       ELSE \E request \in {deserialize(raw_bytes(jobs[wjob[w]])[1])} :
              IF request.ok
              THEN SendRequest(w, request.val, statuses)
              ELSE /\ WReturn(w, "Deserialize")
                   /\ UNCHANGED <<sent, log, faults>>
    /\ UNCHANGED <<cvars, chan, table, jobs, lastOrdered, created,
                   resolves, delivered, restarts, mutex>>

Dispatch(w) == DispatchWith(w, Statuses)

\* job.complete().await?: the row is deleted, or the database fails.
Complete(w) ==
    /\ WStep(w) = "complete"
    /\ \E ok \in BOOLEAN :
         IF ok
         THEN /\ faults' = faults
              /\ jobs' = [jobs EXCEPT ![wjob[w]].done = TRUE]
              /\ WAdvance(w, wresp[w], wsender[w])
         ELSE /\ faults < MaxFaults
              /\ faults' = faults + 1
              /\ jobs' = jobs
              /\ WReturn(w, "CompleteErr")
    /\ UNCHANGED <<cvars, chan, table, lastOrdered, created, log,
                   resolves, delivered, sent, restarts, mutex>>

\* sender.0.lock().unwrap().remove(&job.id()).ok_or(JobError::MissingSender)?
RemoveHolding(w, holder) ==
    /\ WStep(w) = "remove"
    /\ mutex = holder
    /\ mutex' = Release(mutex)
    /\ resolves' = [resolves EXCEPT ![wjob[w]] = @ + 1]
    /\ IF wjob[w] \in DOMAIN table
       THEN /\ table' = TableRemove(table, wjob[w])
            /\ WAdvance(w, wresp[w], table[wjob[w]])
       ELSE /\ table' = table
            /\ WReturn(w, "MissingSender")
    /\ UNCHANGED <<cvars, chan, jobs, lastOrdered, faults, created, log,
                   delivered, sent, restarts>>

Remove(w) == RemoveHolding(w, Free)

\* sender.send(response).or(Err(JobError::MissingReceiver))?: the send
\* consumes the sender and fails when the receiver was dropped.
Send(w) ==
    /\ WStep(w) = "send"
    /\ IF chan[wsender[w]].rx
       THEN /\ chan' = [chan EXCEPT ![wsender[w]].val = wresp[w]]
            /\ delivered' = [delivered EXCEPT ![wjob[w]] = @ + 1]
            /\ WAdvance(w, NoResponse, 0)
       ELSE /\ UNCHANGED <<chan, delivered>>
            /\ WReturn(w, "MissingReceiver")
    /\ UNCHANGED <<cvars, table, jobs, lastOrdered, faults, created, log,
                   resolves, sent, restarts, mutex>>

\* ------------------------------------------------------------ the process
\* A map that outlives the process.
MapSurvives(old) == old

\* ResponseSender::new(), called by Client::new: the new process starts with
\* an empty map whatever the old one held.
ResponseSenderNew(old) == [i \in {} |-> 0]

\* The process restarts: Client::new makes an empty map, the calls and the
\* executions of the old process are gone, the rows stay in the database.
Restart ==
    /\ faults < MaxFaults
    /\ \E c \in Calls : ckind[c] # "none"
    /\ faults' = faults + 1
    /\ restarts' = restarts + 1
    /\ mutex' = Free
    /\ table' = ResponseSenderNew(table)
    /\ cres' = [c \in Calls |-> IF ckind[c] # "none" /\ cres[c] = "none"
                                THEN "crashed" ELSE cres[c]]
    /\ chan' = [c \in Calls |-> [chan[c] EXCEPT !.rx = FALSE]]
    /\ wpc' = [w \in Workers |-> 0]
    /\ wjob' = [w \in Workers |-> 0]
    /\ wresp' = [w \in Workers |-> NoResponse]
    /\ wsender' = [w \in Workers |-> 0]
    /\ jres' = [i \in Ids |-> IF Running(i) THEN "aborted" ELSE jres[i]]
    /\ UNCHANGED <<ckind, cpc, cuuid, builder, cins, cconf, clast, jobs,
                   lastOrdered, created, log, resolves, delivered, sent>>

\* ---------------------------------------------------------- specifications
ClientStep(c) ==
    \/ \E kind \in Kinds : Call(c, kind)
    \/ Register(c)
    \/ Build(c)
    \/ Insert(c)
    \/ Await(c)
    \/ Cancel(c)

WorkerStep(w) ==
    \/ Dispatch(w)
    \/ Complete(w)
    \/ Remove(w)
    \/ Send(w)

Next ==
    \/ \E c \in Callers : ClientStep(c)
    \/ \E w \in Workers, j \in Ids : Poll(w, j)
    \/ \E w \in Workers : WorkerStep(w)
    \/ Restart

NextDup ==
    \/ Next
    \/ \E w \in Workers, j \in Ids : PollDup(w, j)

Spec == Init /\ [][Next]_vars

\* The same with duplicate deliveries.
SpecDup == Init /\ [][NextDup]_vars

\* The process stays up and no caller drops its call.
ClientStepLive(c) ==
    \/ \E kind \in Kinds : Call(c, kind)
    \/ Register(c)
    \/ Build(c)
    \/ Insert(c)
    \/ Await(c)

NextLive ==
    \/ \E c \in Callers : ClientStepLive(c)
    \/ \E w \in Workers, j \in Ids : Poll(w, j)
    \/ \E w \in Workers : WorkerStep(w)

\* The workers and the waiting callers are scheduled fairly, and the runner
\* keeps handing out a job that is ready.
SpecFair ==
    /\ Init /\ [][NextLive]_vars
    /\ \A w \in Workers : WF_vars(WorkerStep(w))
    /\ \A c \in Callers : WF_vars(Await(c))
    /\ \A j \in Callers : WF_vars(\E w \in Workers : Poll(w, j))

\* One caller passes any request of RequestSpace to spawn or to
\* spawn_returning, and the server answers with any status of StatusSpace.
Urls == {"/", "/path?query=foo&param=bar"}
Methods == {"GET", "POST"}
Bodies == {None, Some(<<>>), Some(<<49>>)}
HeaderMaps ==
    {NoHeaders,
     "authorization" :> <<"Bearer: secret">>,
     ("accept" :> <<"text/html", "text/plain">>) @@ ("authorization" :> <<"x">>)}
PolicySets ==
    {{}, default_accepted_responses, {Success, Single(404)},
     {Informational, Redirection, ClientError, ServerError, Range(200, 204)}}
RequestSpace ==
    {Request(url, body, method, headers, accept_responses) :
        url \in Urls, body \in Bodies, method \in Methods,
        headers \in HeaderMaps, accept_responses \in PolicySets}
StatusSpace == {200, 404, 500}

CallRequest(c) == \E kind \in {"spawn", "spawn_returning"} : Call(c, kind)
BuildRequest(c) == BuildWith(c, RequestSpace, {NoCfg}, {NoCfg})
DispatchRequest(w) == DispatchWith(w, StatusSpace)

NextRequest ==
    \/ CallRequest(1)
    \/ Register(1)
    \/ BuildRequest(1)
    \/ Insert(1)
    \/ Await(1)
    \/ \E w \in Workers, j \in Ids : Poll(w, j)
    \/ \E w \in Workers : DispatchRequest(w)
    \/ \E w \in Workers : Complete(w)
    \/ \E w \in Workers : Remove(w)
    \/ \E w \in Workers : Send(w)

SpecRequest == Init /\ [][NextRequest]_vars

\* The ordering scenario: spawn_cfg is called MaxOrdered times, each call
\* after the one before it has returned; call c posts the body "c" (the
\* byte 48 + c), and its callback sets the ordered flag, to either value.
OrderRequest(c) ==
    Request("/", Some(<<48 + c>>), "POST", NoHeaders, default_accepted_responses)

OrderCfgs == {Cfg(-1, "unset", o, "unset") : o \in {"true", "false"}}

CallOrder(c) ==
    /\ IF c = 1 THEN TRUE ELSE cres[c - 1] # "none"
    /\ Call(c, "spawn_cfg")

BuildOrder(c) == BuildWith(c, {OrderRequest(c)}, OrderCfgs, {NoCfg})

NextOrder ==
    \/ \E c \in Calls : CallOrder(c)
    \/ \E c \in Calls : BuildOrder(c)
    \/ \E c \in Calls : Insert(c)
    \/ \E w \in Workers, j \in Ids : Poll(w, j)
    \/ \E w \in Workers : Dispatch(w)
    \/ \E w \in Workers : Complete(w)

SpecOrder == Init /\ [][NextOrder]_vars

\* ------------------------------------------- specification: retry budgets
\* The scenario of the retry test: GET requests with the default policy,
\* enqueued by spawn_cfg with set_retries(n) and a backoff of 10 ms, and a
\* server that answers 400 or 200.
RetryRequest == Request("/", None, "GET", NoHeaders, default_accepted_responses)
RetryCfgs == {Cfg(r, "10ms", "unset", "unset") : r \in 0 .. MaxRetries}
RetryStatuses == {200, 400}

CallRetry(c) == Call(c, "spawn_cfg")
BuildRetry(c) == BuildWith(c, {RetryRequest}, RetryCfgs, {NoCfg})
PollRetry(w, j) == PollWithin(w, j, MaxRetryExec)
DispatchRetry(w) == DispatchWith(w, RetryStatuses)

NextRetry ==
    \/ \E c \in Callers : CallRetry(c)
    \/ \E c \in Callers : BuildRetry(c)
    \/ \E c \in Callers : Insert(c)
    \/ \E w \in Workers, j \in Ids : PollRetry(w, j)
    \/ \E w \in Workers : DispatchRetry(w)
    \/ \E w \in Workers : Complete(w)

SpecRetry == Init /\ [][NextRetry]_vars

\* --------------------------------------- specification: job configuration
\* The four operations called with callbacks that set any of the retry
\* count, the backoff, the ordered flag and the delay, up to the insert.
CfgSpace ==
    {Cfg(r, b, o, d) : r \in {-1, 0, MaxRetries}, b \in {"unset", "10ms"},
                       o \in {"unset", "true", "false"}, d \in {"unset", "1s"}}

CallCfg(c) == \E kind \in Kinds : Call(c, kind)
BuildCfg(c) == BuildWith(c, Requests, CfgSpace, CfgSpace)

NextCfg ==
    \/ \E c \in Callers : CallCfg(c)
    \/ \E c \in Callers : Register(c)
    \/ \E c \in Callers : BuildCfg(c)
    \/ \E c \in Callers : Insert(c)

SpecCfg == Init /\ [][NextCfg]_vars

\* ------------------------------------------- specification: accept policy
\* Requests that accept one variant each, and a server that answers with any
\* status code a StatusCode can hold.
VariantSpace ==
    {Informational, Success, Redirection, ClientError, ServerError,
     Single(200), Single(404), Range(423, 489), Range(200, 200), Range(489, 423)}
PolicyRequests == {Request("/", None, "GET", NoHeaders, {v}) : v \in VariantSpace}
PolicyStatuses == 100 .. 999

CallPolicy(c) == \E kind \in {"spawn", "spawn_returning"} : Call(c, kind)
BuildPolicy(c) == BuildWith(c, PolicyRequests, {NoCfg}, {NoCfg})
PollPolicy(w, j) == PollWithin(w, j, MaxPolicyExec)
DispatchPolicy(w) == DispatchWith(w, PolicyStatuses)

NextPolicy ==
    \/ CallPolicy(1)
    \/ Register(1)
    \/ BuildPolicy(1)
    \/ Insert(1)
    \/ \E w \in Workers, j \in Ids : PollPolicy(w, j)
    \/ \E w \in Workers : DispatchPolicy(w)
    \/ \E w \in Workers : Complete(w)

SpecPolicy == Init /\ [][NextPolicy]_vars

\* ----------------------------------------- specification: job payloads
\* Besides the jobs of one caller, the queue holds rows other producers
\* wrote under the executors' names: the first of them without payload or
\* with a tag no Option or variant has, the others with a request cut short.
ForeignIds == Ids \ {1}
CutShort(p) == {SubSeq(p, 1, n) : n \in 0 .. Len(p) - 1}
BadTags == {<<"/", 2>>, <<"/", 0, "GET", 0, 1, 7>>}
ForeignPayloads(j) ==
    IF j = 2
    THEN {None} \cup {Some(p) : p \in BadTags}
    ELSE {Some(p) : p \in
            CutShort(serialize(Request("/", Some(<<49>>), "POST",
                                       "authorization" :> <<"x">>, {Single(404)})))}

ForeignRow(name, payload) ==
    [name |-> name, request |-> NoRequest, policy |-> {}, payload |-> payload,
     retries |-> 1, backoff |-> "default", ordered |-> FALSE,
     delay |-> "default", attempts |-> 2, after |-> 0, done |-> FALSE]

ForeignInsertWith(j, payloads) ==
    /\ j \notin DOMAIN jobs
    /\ \E name \in {"http", "http_response"}, payload \in payloads :
         jobs' = (j :> ForeignRow(name, payload)) @@ jobs
    /\ created' = [created EXCEPT ![j] = @ + 1]
    /\ UNCHANGED <<cvars, chan, table, lastOrdered, log, resolves, delivered,
                   jres, sent, wvars, faults, restarts, mutex>>

ForeignInsert(j) == ForeignInsertWith(j, ForeignPayloads(j))

CallPayload(c) == Call(c, "spawn_returning")

NextPayload ==
    \/ CallPayload(1)
    \/ Register(1)
    \/ Build(1)
    \/ Insert(1)
    \/ Await(1)
    \/ \E j \in ForeignIds : ForeignInsert(j)
    \/ \E w \in Workers, j \in Ids : Poll(w, j)
    \/ \E w \in Workers : Dispatch(w)
    \/ \E w \in Workers : Complete(w)
    \/ \E w \in Workers : Remove(w)
    \/ \E w \in Workers : Send(w)

SpecPayload == Init /\ [][NextPayload]_vars


\* The callers enqueue while the database answers the inserts with up to
\* MaxConflicts errors, after which the conflict has cleared; a call that
\* is in the loop of retrying_spawn keeps running.
CallEnqueue(c) == \E kind \in Kinds : Call(c, kind)
InsertEnqueue(c) == InsertWithin(c, MaxConflicts)

NextEnqueue ==
    \E c \in Callers :
        \/ CallEnqueue(c)
        \/ Register(c)
        \/ Build(c)
        \/ InsertEnqueue(c)

SpecEnqueue ==
    /\ Init /\ [][NextEnqueue]_vars
    /\ \A c \in Callers : WF_vars(InsertEnqueue(c))


\* The general scenario with the lock of the map taken in a step of its own:
\* a task at its map statement first takes the lock, then does the
\* statement holding it.
LockCall(c) == Lock(CallTask(c), CStep(c))
LockExec(w) == Lock(ExecTask(w), WStep(w))
RegisterLocked(c) == RegisterHolding(c, CallTask(c))
RemoveLocked(w) == RemoveHolding(w, ExecTask(w))

NextLock ==
    \/ \E c \in Callers :
         \/ \E kind \in Kinds : Call(c, kind)
         \/ LockCall(c)
         \/ RegisterLocked(c)
         \/ Build(c)
         \/ Insert(c)
         \/ Await(c)
         \/ Cancel(c)
    \/ \E w \in Workers, j \in Ids : Poll(w, j)
    \/ \E w \in Workers :
         \/ Dispatch(w)
         \/ Complete(w)
         \/ LockExec(w)
         \/ RemoveLocked(w)
         \/ Send(w)
    \/ Restart

SpecLock == Init /\ [][NextLock]_vars


\* Jobs side by side: the jobs of two returning calls, the first of which
\* its caller may drop, and a row of another producer under either
\* executor's name, without payload, with a broken one, or with a whole
\* request (for which this process holds no sender).
OtherPayloads ==
    {None, Some(<<"/", 2>>),
     Some(serialize(Request("/", None, "GET", NoHeaders, {Success, Single(404)})))}

CallIsolation(c) == Call(c, "spawn_returning")
ForeignIsolation(j) == ForeignInsertWith(j, OtherPayloads)

NextIsolation ==
    \/ \E c \in Callers :
         \/ CallIsolation(c)
         \/ Register(c)
         \/ Build(c)
         \/ Insert(c)
         \/ Await(c)
    \/ Cancel(1)
    \/ ForeignIsolation(MaxCalls + 1)
    \/ \E w \in Workers, j \in Ids : Poll(w, j)
    \/ \E w \in Workers : WorkerStep(w)

SpecIsolation == Init /\ [][NextIsolation]_vars

\* ================================================================ claims
\* The documented meaning of a variant and of a set of variants, stated
\* apart from the executors' own test.
InDocumentedRange(v, status) ==
    CASE v.kind = "Informational" -> 100 <= status /\ status <= 199
      [] v.kind = "Success" -> 200 <= status /\ status <= 299
      [] v.kind = "Redirection" -> 300 <= status /\ status <= 399
      [] v.kind = "ClientError" -> 400 <= status /\ status <= 499
      [] v.kind = "ServerError" -> 500 <= status /\ status <= 599
      [] v.kind = "Single" -> status = v.min
      [] v.kind = "Range" -> v.min <= status /\ status <= v.max

AcceptedBySomeVariant(set, status) == \E v \in set : InDocumentedRange(v, status)

Last(seq) == seq[Len(seq)]
Called == {c \in Calls : ckind[c] # "none"}
CallsOf(j) == {c \in Called : cuuid[c] = j}
CorrelationErrors == {"MissingSender", "MissingReceiver"}

\* C1: at-most-once delivery.  For every job id, whatever the executions of
\* http_response for it (duplicates and concurrent ones included), at most
\* one response is sent through a sender; and every lookup of the id in the
\* map after the first finds no sender: that execution returns
\* MissingSender, sends nothing and leaves the map as it was.
C1_AtMostOnce ==
    /\ [](\A j \in Ids : delivered[j] <= 1)
    /\ [][\A j \in Ids :
            (resolves[j] >= 1 /\ resolves'[j] = resolves[j] + 1)
                => /\ jres'[j] = "MissingSender"
                   /\ table' = table
                   /\ delivered' = delivered
                   /\ chan' = chan]_vars

\* A second execution of a job looked its id up after the first one had
\* delivered, and returned MissingSender.
C1_Witness ==
    \E j \in Ids :
        /\ resolves[j] >= 2
        /\ delivered[j] = 1
        /\ jres[j] = "MissingSender"

\* C2: retry until accepted.  An execution goes on to mark the job complete
\* exactly if some variant of its request's set accepts the status it
\* received, and otherwise returns Ok with the job incomplete.  A job is
\* complete only if the last response to it was accepted by some variant;
\* and when an execution has returned Ok, the job is complete exactly if the
\* status it received is accepted by some variant.  So the job stays
\* incomplete after every execution with a status no variant accepts and is
\* complete after the first accepted one.
C2_RetryUntilAccepted ==
    /\ [](\A w \in Workers : WStep(w) = "complete" =>
            AcceptedBySomeVariant(jobs[wjob[w]].policy, wresp[w].status))
    /\ [][\A w \in Workers : (WStep(w) = "dispatch" /\ log'[wjob[w]] # log[wjob[w]]) =>
            IF AcceptedBySomeVariant(jobs[wjob[w]].policy, Last(log'[wjob[w]]))
            THEN wjob'[w] = wjob[w] /\ (WStep(w))' = "complete"
            ELSE /\ wpc'[w] = 0
                 /\ jres'[wjob[w]] = "Ok"
                 /\ ~jobs'[wjob[w]].done]_vars
    /\ [](\A j \in DOMAIN jobs :
            /\ jobs[j].done =>
                  /\ log[j] # <<>>
                  /\ AcceptedBySomeVariant(jobs[j].policy, Last(log[j]))
            /\ (~Running(j) /\ jres[j] = "Ok") =>
                  /\ log[j] # <<>>
                  /\ jobs[j].done <=>
                        AcceptedBySomeVariant(jobs[j].policy, Last(log[j])))

\* A job whose first execution got a status that is not accepted, left
\* incomplete by it, and completed by the second execution, which returned
\* Ok.
C2_Witness ==
    \E j \in DOMAIN jobs :
        /\ Len(log[j]) = 2
        /\ ~AcceptedBySomeVariant(jobs[j].policy, log[j][1])
        /\ AcceptedBySomeVariant(jobs[j].policy, log[j][2])
        /\ jobs[j].done
        /\ ~Running(j)
        /\ jres[j] = "Ok"

\* C3: enqueue conflicts are absorbed.  When the database answers Ok after
\* any number of retryable conflicts, the call goes on past retrying_spawn
\* without an error, exactly one row exists for its id, and the attempts
\* made are the conflicts plus one; while the last answer is a conflict the
\* call is still in the loop; and a call returns an Sqlx error only for an
\* answer that is not a retryable conflict.
C3_ConflictAbsorbed ==
    \A c \in Called :
        /\ clast[c] = "Ok" =>
              /\ cres[c] # "Sqlx"
              /\ CStep(c) # "insert"
              /\ ckind[c] \notin Returning => cres[c] = "Ok"
              /\ cuuid[c] \in DOMAIN jobs
              /\ created[cuuid[c]] = 1
              /\ cins[c] = cconf[c] + 1
        /\ clast[c] = "Conflict" =>
              /\ cres[c] \in {"none", "cancelled", "crashed"}
              /\ cres[c] = "none" => CStep(c) = "insert"
              /\ created[cuuid[c]] = 0
        /\ cres[c] = "Sqlx" => clast[c] = "Fatal"

\* A spawn that returned Ok after the database had reported a conflict.
C3_Witness ==
    \E c \in Called :
        /\ cconf[c] >= 1
        /\ clast[c] = "Ok"
        /\ cres[c] = "Ok"
        /\ created[cuuid[c]] = 1

\* C4: a returning call gets the response of its own job.  The value in a
\* call's channel is a response to the job whose id the call registered,
\* received by an execution of that job, with a status some variant of the
\* call's own request accepts; a returning call that returned Ok holds such
\* a value; the calls have different ids, every entry of the map holds the
\* sender of the call that registered its id, and no step replaces the
\* sender stored under an id.
C4_OwnResponse ==
    /\ [](\A c \in Called :
            /\ chan[c].val # NoResponse =>
                  /\ ckind[c] \in Returning
                  /\ chan[c].val.job = cuuid[c]
                  /\ AcceptedBySomeVariant(builder[c].policy, chan[c].val.status)
                  /\ chan[c].val.nth \in DOMAIN log[cuuid[c]]
                  /\ log[cuuid[c]][chan[c].val.nth] = chan[c].val.status
            /\ (ckind[c] \in Returning /\ cres[c] = "Ok") => chan[c].val # NoResponse
            /\ \A d \in Called : d # c => cuuid[d] # cuuid[c])
    /\ [](\A i \in DOMAIN table : table[i] \in Called /\ cuuid[table[i]] = i)
    /\ [][\A i \in DOMAIN table : i \in DOMAIN table' => table'[i] = table[i]]_vars

\* Two returning calls ran concurrently and each returned Ok with the
\* response of its own job.
C4_Witness ==
    \E c, d \in Called :
        /\ c # d
        /\ ckind[c] = "spawn_returning" /\ ckind[d] = "spawn_returning_cfg"
        /\ cres[c] = "Ok" /\ cres[d] = "Ok"
        /\ chan[c].val.job = cuuid[c]
        /\ chan[d].val.job = cuuid[d]

\* C6 as the specification states it: the executor looks the waiter up in
\* the map before it marks the job complete, so the job of an execution
\* that is about to look its sender up is not complete yet.
C6_ResolveBeforeComplete ==
    \A w \in Workers : WStep(w) = "remove" => ~jobs[wjob[w]].done

\* C6, amended: on an accepted response http_response marks the job
\* complete before it looks the waiter up: the job of an execution that is
\* about to take or to send through its sender is complete, and so is every
\* job whose id was looked up or whose response was delivered.
C6_CompleteBeforeResolve ==
    /\ \A w \in Workers : WStep(w) \in {"remove", "send"} => jobs[wjob[w]].done
    /\ \A j \in Ids : (resolves[j] > 0 \/ delivered[j] > 0) => jobs[j].done

\* An execution with an accepted response is about to look its sender up,
\* and its job is complete.
C6_Witness ==
    \E w \in Workers :
        /\ WStep(w) = "remove"
        /\ wresp[w] # NoResponse
        /\ jobs[wjob[w]].done

\* C7: a correlation failure does not repeat the HTTP call.  An execution
\* that returned MissingSender or MissingReceiver leaves its job complete,
\* and a complete job stays complete, is handed to no worker and gets no
\* further dispatch.
C7_NoRedispatch ==
    /\ [](\A j \in Ids : jres[j] \in CorrelationErrors =>
            /\ j \in DOMAIN jobs
            /\ jobs[j].done
            /\ ~Ready(j))
    /\ [][\A j \in DOMAIN jobs : jobs[j].done =>
            /\ jobs'[j].done
            /\ log'[j] = log[j]
            /\ \A w \in Workers : (wjob'[w] = j) => (wjob[w] = j)]_vars

\* One job ended with MissingReceiver and another with MissingSender, each
\* after one dispatch.
C7_Witness ==
    \E i, j \in Ids :
        /\ jres[i] = "MissingSender" /\ Len(log[i]) = 1
        /\ jres[j] = "MissingReceiver" /\ Len(log[j]) = 1

\* C8: abandonment is safe.  The send is never blocked; when the receiver
\* of the sender an execution holds was dropped, the execution's next step
\* returns MissingReceiver and delivers nothing; and after an execution
\* returned MissingReceiver the map has no entry for its job id.
C8_Abandonment ==
    /\ [](\A w \in Workers : WStep(w) = "send" => ENABLED Send(w))
    /\ [](\A j \in Ids : jres[j] = "MissingReceiver" =>
            /\ j \notin DOMAIN table
            /\ delivered[j] = 0
            /\ \A c \in CallsOf(j) : cres[c] # "none" /\ chan[c].val = NoResponse)
    /\ [][\A w \in Workers :
            (/\ WStep(w) = "send"
             /\ ~chan[wsender[w]].rx
             /\ wpc'[w] # wpc[w]
             /\ restarts' = restarts)
                => /\ jres'[wjob[w]] = "MissingReceiver"
                   /\ wpc'[w] = 0
                   /\ chan' = chan
                   /\ delivered' = delivered]_vars

\* The caller of a returning call dropped it while waiting, and the
\* execution of its job then returned MissingReceiver.
C8_Witness ==
    \E c \in Called :
        /\ cres[c] = "cancelled"
        /\ CStep(c) = "none"
        /\ ClientProg(ckind[c])[cpc[c]] = "await"
        /\ jres[cuuid[c]] = "MissingReceiver"

\* C9: registration happens before the enqueue.  In the step that makes the
\* row of an http_response job visible, the map already holds under the
\* job's id the sender of the call that enqueues it; and no execution
\* returns MissingSender for a job whose caller is still waiting.
C9_RegisterBeforeEnqueue ==
    /\ [][\A j \in Ids :
            (/\ j \notin DOMAIN jobs
             /\ j \in DOMAIN jobs'
             /\ jobs'[j].name = "http_response")
                => /\ j \in DOMAIN table
                   /\ cuuid[table[j]] = j
                   /\ CStep(table[j]) = "insert"]_vars
    /\ [](\A j \in Ids : jres[j] = "MissingSender" =>
            \A c \in CallsOf(j) : cres[c] # "none")

\* The job of a returning call is in the queue, its sender is in the map
\* and the caller waits for the response.
C9_Witness ==
    \E c \in Called :
        /\ ckind[c] \in Returning
        /\ CStep(c) = "await"
        /\ cuuid[c] \in DOMAIN jobs
        /\ cuuid[c] \in DOMAIN table
        /\ Running(cuuid[c])

\* C10: a fatal enqueue error is propagated at once.  When the database
\* answers an insert with an error that is no retryable conflict, the call
\* returns SpawnError::Sqlx and no row exists for its id; a call that
\* returned Serde made no insert attempt; and a call that has returned
\* makes no further attempt and creates no row.
C10_FatalPropagated ==
    /\ [](\A c \in Called :
            /\ clast[c] = "Fatal" =>
                  /\ cres[c] = "Sqlx"
                  /\ cuuid[c] \notin DOMAIN jobs
                  /\ created[cuuid[c]] = 0
            /\ cres[c] = "Serde" =>
                  /\ cins[c] = 0
                  /\ clast[c] = "none"
                  /\ cuuid[c] \notin DOMAIN jobs)
    /\ [][\A c \in Called : cres[c] \in {"Sqlx", "Serde"} =>
            /\ cins'[c] = cins[c]
            /\ cres'[c] = cres[c]
            /\ cuuid[c] \notin DOMAIN jobs']_vars

\* One call returned Sqlx at its second attempt, after a conflict, and
\* another returned Serde.
C10_Witness ==
    \E c, d \in Called :
        /\ cres[c] = "Sqlx" /\ cconf[c] = 1 /\ cins[c] = 2
        /\ cres[d] = "Serde"

\* C5 as the specification states it: when an execution has received an
\* accepted response for the job of a spawn_returning call that waits for
\* it, then, the workers being scheduled fairly, the call eventually returns
\* Ok with that response; and a returning call returns Ok only after its job
\* received an accepted response.
\* The response to the nth dispatch of call c's job.
Response(c, nth) ==
    [status |-> log[cuuid[c]][nth], job |-> cuuid[c], nth |-> nth]

AcceptedInHand(c, nth) ==
    /\ ckind[c] \in Returning
    /\ CStep(c) = "await"
    /\ nth \in DOMAIN log[cuuid[c]]
    /\ \E w \in Workers : wpc[w] # 0 /\ wresp[w] = Response(c, nth)

CompletedInHand(c, nth) ==
    /\ AcceptedInHand(c, nth)
    /\ jobs[cuuid[c]].done

Returned(c, nth) ==
    /\ cres[c] = "Ok"
    /\ nth \in DOMAIN log[cuuid[c]]
    /\ chan[c].val = Response(c, nth)

OkOnlyAfterAccepted ==
    \A c \in Called : (ckind[c] \in Returning /\ cres[c] = "Ok") =>
        \E k \in DOMAIN log[cuuid[c]] :
            AcceptedBySomeVariant(builder[c].policy, log[cuuid[c]][k])

C11_EmptyPolicyGuarded ==
    \A j \in DOMAIN jobs :
        (/\ jobs[j].request.accept_responses = {}
         /\ log[j] # <<>>
         /\ ~Running(j)
         /\ jres[j] = "Ok")
            => (jobs[j].done <=>
                    AcceptedBySomeVariant(default_accepted_responses, Last(log[j])))

\* C12: a waiter entry is removed when the call that registered it fails
\* before the enqueue.  When a returning call has returned a serialization
\* error or a fatal enqueue error, the map holds no entry for the id it
\* registered.
C12_EntryRemovedOnError ==
    \A c \in Called :
        (ckind[c] \in Returning /\ cres[c] \in {"Serde", "Sqlx"})
            => cuuid[c] \notin DOMAIN table

\* C13: ordered delivery.  Of the jobs enqueued one after another by
\* spawn_cfg calls whose callback sets the ordered flag, a later one is
\* handed to a worker and dispatched only when every earlier one is
\* complete, a complete job is never dispatched again, and every call a job
\* issues carries that job's body: the server sees the bodies in the order
\* of the enqueues.
SetsOrdered(c) ==
    /\ ckind[c] = "spawn_cfg"
    /\ builder[c].cfg.ordered = "true"
    /\ cuuid[c] \in DOMAIN jobs

Budget(c) == builder[c].cfg.retries
Answers(c) == log[cuuid[c]]
Enqueued(c) == c \in Called /\ cuuid[c] \in DOMAIN jobs /\ Budget(c) >= 0
Always400(c) == \A k \in 1 .. Len(Answers(c)) : Answers(c)[k] = 400
Exhausted(c) == jobs[cuuid[c]].attempts = 0 /\ ~Running(cuuid[c])

\* C14 as stated: with retry budget 3 and a server that always answers 400,
\* once the budget is exhausted the server has received exactly 3 requests.
C14_ThreeRequests ==
    \A c \in Callers :
        (Enqueued(c) /\ Budget(c) = 3 /\ Always400(c) /\ Exhausted(c) /\ faults = 0)
            => Len(Answers(c)) = 3

\* C14: a job with retry budget R whose server always answers 400 is never
\* complete and is dispatched at most R + 1 times; once the budget is
\* exhausted, nothing else having failed, the server has received exactly
\* R + 1 requests (4 for a budget of 3).
C14_BudgetPlusOneRequests ==
    \A c \in Callers :
        (Enqueued(c) /\ Always400(c)) =>
            /\ ~jobs[cuuid[c]].done
            /\ Len(Answers(c)) <= Budget(c) + 1
            /\ (Exhausted(c) /\ faults = 0) => Len(Answers(c)) = Budget(c) + 1

\* A job with budget 3 has been answered 400 four times and has no attempt
\* left.
C14_Witness ==
    \E c \in Callers :
        /\ Enqueued(c) /\ Budget(c) = 3 /\ Exhausted(c) /\ faults = 0
        /\ Answers(c) = <<400, 400, 400, 400>>
        /\ ~jobs[cuuid[c]].done

\* C15: a job enqueued with set_retries(R) is dispatched at most R + 1
\* times; it is complete only after an accepted response, which is then its
\* last one: a complete job is never dispatched again; and an execution that
\* got an accepted response and returned Ok has completed the job.
C15_RetryBudget ==
    /\ [](\A c \in Callers : Enqueued(c) =>
            /\ Len(Answers(c)) <= Budget(c) + 1
            /\ jobs[cuuid[c]].done =>
                  /\ Answers(c) # <<>>
                  /\ AcceptedBySomeVariant(default_accepted_responses, Last(Answers(c)))
            /\ (/\ Answers(c) # <<>>
                /\ AcceptedBySomeVariant(default_accepted_responses, Last(Answers(c)))
                /\ ~Running(cuuid[c])
                /\ jres[cuuid[c]] = "Ok")
                  => jobs[cuuid[c]].done)
    /\ [][\A j \in DOMAIN jobs : jobs[j].done =>
            log'[j] = log[j] /\ sent'[j] = sent[j] /\ ~Running(j)']_vars

\* The retry test: set_retries(3), three answers of 400, and the fourth
\* dispatch is answered 200 and completes the job.
C15_Witness ==
    \E c \in Callers :
        /\ Enqueued(c) /\ Budget(c) = 3
        /\ Answers(c) = <<400, 400, 400, 200>>
        /\ jobs[cuuid[c]].done
        /\ jobs[cuuid[c]].attempts = 0
\* C16: the fire-and-forget executor dispatches the request that was
\* enqueued.  Every call issued for a job of spawn has the method, the URL
\* (path and query), the headers and the body of the Request the caller
\* passed, and no body when that Request has none.
C16_DispatchedVerbatim ==
    \A j \in DOMAIN jobs : jobs[j].name = "http" =>
        \A call \in sent[j] :
            /\ call.method = jobs[j].request.method
            /\ call.url = jobs[j].request.url
            /\ call.headers = jobs[j].request.headers
            /\ call.body = jobs[j].request.body

\* The send_empty test: a GET with a query, an authorization header and no
\* body has been dispatched by the fire-and-forget executor.
C16_Witness ==
    \E j \in DOMAIN jobs :
        /\ jobs[j].name = "http"
        /\ jobs[j].request.url = "/path?query=foo&param=bar"
        /\ jobs[j].request.method = "GET"
        /\ jobs[j].request.headers = ("authorization" :> <<"Bearer: secret">>)
        /\ jobs[j].request.body = None
        /\ sent[j] # {}

\* C17: the response-returning executor does what the fire-and-forget one
\* does.  Every call issued for a job of spawn_returning is the call the
\* fire-and-forget executor builds from the same payload (same method, URL,
\* headers and body), and a response it holds at its completion step has a
\* status the request's set accepts.
C17_SameCallAsHttp ==
    \A j \in DOMAIN jobs : jobs[j].name = "http_response" =>
        /\ \A call \in sent[j] : call = HttpCall("http", deserialize(jobs[j].payload[1]).val)
        /\ \A w \in Workers : (wjob[w] = j /\ WStep(w) = "complete") =>
              Accepted(jobs[j].request.accept_responses, wresp[w].status)
\* The parameters the documentation gives a job: the defaults (100000
\* retries, ordered, the engine's backoff and delay) with every value the
\* callback set in place of the default.
Documented(cfg) ==
    [retries |-> IF cfg.retries = -1 THEN 100000 ELSE cfg.retries,
     backoff |-> IF cfg.backoff = "unset" THEN "default" ELSE cfg.backoff,
     ordered |-> IF cfg.ordered = "unset" THEN TRUE ELSE cfg.ordered = "true",
     delay |-> IF cfg.delay = "unset" THEN "default" ELSE cfg.delay]

Parameters(row) ==
    [retries |-> row.retries, backoff |-> row.backoff, ordered |-> row.ordered,
     delay |-> row.delay]

\* C18: job parameters are the defaults overridden by the caller's callback.
\* Every job enqueued by spawn or spawn_returning has 100000 retries and the
\* ordered flag set, and every job enqueued by spawn_cfg or
\* spawn_returning_cfg has the defaults with each value its callback set.
C18_CallbackTakesEffect ==
    \A c \in Called : cuuid[c] \in DOMAIN jobs =>
        /\ ckind[c] \in {"spawn", "spawn_returning"} =>
              jobs[cuuid[c]].retries = 100000 /\ jobs[cuuid[c]].ordered
        /\ Parameters(jobs[cuuid[c]]) = Documented(builder[c].cfg)
\* C19: policy correctness.  For every variant a request accepts and every
\* status code from 100 to 999 the server answers with, accepts is true
\* exactly when the code lies in the variant's documented range, and the
\* executor goes on to complete the job exactly in that case.
C19_AcceptsDocumentedRange ==
    /\ \A j \in DOMAIN jobs : \A k \in 1 .. Len(log[j]) :
          \A v \in jobs[j].request.accept_responses :
              accepts(v, log[j][k]) <=> InDocumentedRange(v, log[j][k])
    /\ \A w \in Workers : WStep(w) = "complete" =>
          AcceptedBySomeVariant(jobs[wjob[w]].request.accept_responses,
                                wresp[w].status)
    /\ \A j \in DOMAIN jobs :
          (log[j] # <<>> /\ ~Running(j) /\ jres[j] = "Ok" /\ ~jobs[j].done) =>
              ~AcceptedBySomeVariant(jobs[j].request.accept_responses, Last(log[j]))

\* The ends of the documented ranges: Range(423, 489) has accepted 489 and
\* the job is complete.
C19_Witness ==
    \E j \in DOMAIN jobs :
        /\ jobs[j].request.accept_responses = {Range(423, 489)}
        /\ log[j] = <<489>>
        /\ jobs[j].done
\* C20: round trip.  The payload a builder or a queued job carries
\* deserializes to the Request the caller passed: same URL, method, headers,
\* body and acceptance set; and a response the executor goes on to complete
\* the job with is one the caller's set accepts.
C20_RoundTrip ==
    /\ \A c \in Called : builder[c].name # "none" =>
          deserialize(builder[c].payload[1]).val = builder[c].request
    /\ \A j \in DOMAIN jobs : deserialize(jobs[j].payload[1]).val = jobs[j].request
    /\ \A w \in Workers : WStep(w) = "complete" =>
          Accepted(jobs[wjob[w]].request.accept_responses, wresp[w].status)

\* A request with a body, two header names, one of them repeated, and a set
\* of five variants has gone through the queue and been dispatched.
C20_Witness ==
    \E j \in DOMAIN jobs :
        /\ jobs[j].request.body = Some(<<49>>)
        /\ DOMAIN jobs[j].request.headers = {"accept", "authorization"}
        /\ Cardinality(jobs[j].request.accept_responses) = 5
        /\ deserialize(jobs[j].payload[1]).val = jobs[j].request
        /\ log[j] # <<>>
\* The payload of the job worker w is about to validate is absent, or does
\* not deserialize.
Absent(j) == jobs[j].payload = None
Malformed(j) == jobs[j].payload # None /\ ~deserialize(jobs[j].payload[1]).ok
Validating(w) == wpc[w] # 0 /\ WStep(w) = "dispatch"

\* The attempt of worker w ends with error err: no HTTP call, the job not
\* complete, the table as it was.
FailsBeforeDispatch(w, err) ==
    /\ wpc'[w] = 0
    /\ jres'[wjob[w]] = err
    /\ sent' = sent /\ log' = log
    /\ jobs' = jobs /\ ~jobs[wjob[w]].done
    /\ table' = table

\* C21 as stated: an absent or malformed payload fails the attempt with
\* MissingRequest before any HTTP call, the job not complete and the table
\* unchanged.
C21_MissingRequestOnBadPayload ==
    [][\A w \in Workers :
         (Validating(w) /\ (Absent(wjob[w]) \/ Malformed(wjob[w])) /\ wpc'[w] # wpc[w])
             => FailsBeforeDispatch(w, "MissingRequest")]_vars

\* C21: payload validation.  An absent payload fails the attempt with
\* MissingRequest and a malformed one with the deserialization error, in
\* both cases before any HTTP call, leaving the job incomplete and the
\* table unchanged; such a job never issues a call and is never complete.
C21_PayloadValidated ==
    /\ [][\A w \in Workers :
            /\ (Validating(w) /\ Absent(wjob[w]) /\ wpc'[w] # wpc[w])
                  => FailsBeforeDispatch(w, "MissingRequest")
            /\ (Validating(w) /\ Malformed(wjob[w]) /\ wpc'[w] # wpc[w])
                  => FailsBeforeDispatch(w, "Deserialize")]_vars
    /\ [](\A j \in DOMAIN jobs : (Absent(j) \/ Malformed(j)) =>
            sent[j] = {} /\ log[j] = <<>> /\ ~jobs[j].done)

\* A row without payload and a row with a payload cut short have both used
\* up their attempts, while the caller's sender is still in the table.
C21_Witness ==
    /\ \E j \in DOMAIN jobs :
          Absent(j) /\ jres[j] = "MissingRequest" /\ jobs[j].attempts = 0
    /\ \E j \in DOMAIN jobs :
          Malformed(j) /\ jres[j] = "Deserialize" /\ jobs[j].attempts = 0
    /\ 1 \in DOMAIN table

\* C22: a failed execution of http_response keeps the sender.  An execution
\* of http_response whose request fails in transport, or is answered with a
\* status no variant of the set accepts, ends there: the job row is as it
\* was and not complete, the map, the channels and the calls are as they
\* were.  So while a returning call waits for a job that is not complete (and
\* the process has not restarted), its sender is in the map and nothing has
\* been sent to it: a later accepted execution finds the sender.
TransportFailure(w) == log'[wjob[w]] = log[wjob[w]]
NotAcceptedAnswer(w) ==
    /\ log'[wjob[w]] # log[wjob[w]]
    /\ ~AcceptedBySomeVariant(jobs[wjob[w]].policy, Last(log'[wjob[w]]))

C22_FailedExecutionKeepsSender ==
    /\ [][\A w \in Workers :
            (/\ Validating(w)
             /\ jobs[wjob[w]].name = "http_response"
             /\ wpc'[w] # wpc[w]
             /\ restarts' = restarts
             /\ TransportFailure(w) \/ NotAcceptedAnswer(w))
                => /\ wpc'[w] = 0
                   /\ jres'[wjob[w]] =
                         (IF TransportFailure(w) THEN "Transport" ELSE "Ok")
                   /\ jobs' = jobs
                   /\ ~jobs[wjob[w]].done
                   /\ table' = table
                   /\ chan' = chan
                   /\ cres' = cres /\ cpc' = cpc]_vars
    /\ [](\A c \in Called :
            (/\ ckind[c] \in Returning
             /\ CStep(c) = "await"
             /\ restarts = 0
             /\ ~jobs[cuuid[c]].done)
                => /\ cuuid[c] \in DOMAIN table
                   /\ table[cuuid[c]] = c
                   /\ chan[c].rx
                   /\ chan[c].val = NoResponse)

\* A returning call got the response of the second execution of its job,
\* after a first execution whose request failed in transport: two attempts
\* are used and one status was received.
C22_Witness ==
    \E c \in Called :
        /\ ckind[c] \in Returning
        /\ cres[c] = "Ok"
        /\ jobs[cuuid[c]].retries + 1 - jobs[cuuid[c]].attempts = 2
        /\ Len(log[cuuid[c]]) = 1
        /\ chan[c].val = Response(c, 1)
        /\ delivered[cuuid[c]] = 1

\* C23: the enqueue-retry loop.  retrying_spawn has returned exactly if the
\* database answered its last insert attempt with Ok or with an error that
\* is no retryable conflict; as long as every attempt made was answered with
\* a conflict, whatever their number, the call is in the loop and no row
\* exists; after a conflict the next step of the call is another attempt,
\* with nothing in between; and when the conflicts stop after finitely many
\* attempts, a call in the loop leaves it.
InLoop(c) == CStep(c) = "insert"
SpawnReturned(c) ==
    \/ cres[c] = "Sqlx"
    \/ ckind[c] \in Returning /\ cpc[c] > 3
    \/ ckind[c] \in Kinds \ Returning /\ cres[c] = "Ok"

C23_RetryLoop ==
    /\ [](\A c \in Called :
            /\ SpawnReturned(c) <=> clast[c] \in {"Ok", "Fatal"}
            /\ (cins[c] >= 1 /\ cconf[c] = cins[c]) =>
                  /\ InLoop(c)
                  /\ ~SpawnReturned(c)
                  /\ cuuid[c] \notin DOMAIN jobs)
    /\ [][\A c \in Called :
            (clast[c] = "Conflict" /\ <<cpc'[c], cres'[c], cins'[c]>> #
                                      <<cpc[c], cres[c], cins[c]>>)
                => cins'[c] = cins[c] + 1]_vars
    /\ \A c \in Callers : InLoop(c) ~> SpawnReturned(c)

\* A call left the loop with Ok at the attempt after MaxConflicts conflicts
\* in a row.
C23_Witness ==
    \E c \in Called :
        /\ cconf[c] = MaxConflicts
        /\ cins[c] = MaxConflicts + 1
        /\ clast[c] = "Ok"
        /\ SpawnReturned(c)
        /\ cuuid[c] \in DOMAIN jobs

\* C24: lock discipline.  The map changes only in a step of the task that
\* holds the lock (a restart, which makes a new map, aside); the task that
\* holds the lock is at its one map statement, the insert of the client or
\* the remove of the executor, and releases the lock with that statement,
\* which is one insert or one remove; so no task holds the lock while it is
\* at the database insert, the await, the HTTP dispatch, the completion of
\* the job or the send.
OneInsert ==
    \E c \in Called : mutex = CallTask(c) /\ table' = TableInsert(table, cuuid[c], c)
OneRemove ==
    \E w \in Workers :
        /\ mutex = ExecTask(w)
        /\ resolves'[wjob[w]] = resolves[wjob[w]] + 1
        /\ table' = TableRemove(table, wjob[w])

C24_LockDiscipline ==
    /\ [](\A c \in Calls : mutex = CallTask(c) =>
            /\ CStep(c) = "register"
            /\ CStep(c) \notin {"build", "insert", "await"})
    /\ [](\A w \in Workers : mutex = ExecTask(w) =>
            /\ WStep(w) = "remove"
            /\ WStep(w) \notin {"dispatch", "complete", "send"})
    /\ [][(table' # table /\ restarts' = restarts) =>
            /\ mutex # Free
            /\ mutex' = Free
            /\ OneInsert \/ OneRemove]_vars
    /\ [][(mutex # Free /\ mutex' # mutex) =>
            \/ restarts' # restarts
            \/ OneInsert \/ OneRemove]_vars

\* An execution holds the lock at its remove while a call waits for the
\* lock at its insert, and the sender of an earlier call is in the map.
C24_Witness ==
    \E w \in Workers, c \in Called :
        /\ mutex = ExecTask(w)
        /\ WStep(w) = "remove"
        /\ CStep(c) = "register"
        /\ wjob[w] \in DOMAIN table

\* C25: per-job isolation.  No step of an execution of a job A, and so no
\* execution of A that ends in a transport failure, a payload error, a
\* status that is not accepted or a correlation failure, changes the row
\* (so the completion state) of a job other than A or the map's entry of an
\* id other than A's.
OthersUntouched(a) ==
    /\ \A b \in (DOMAIN jobs) \ {a} : b \in DOMAIN jobs' /\ jobs'[b] = jobs[b]
    /\ DOMAIN jobs' = DOMAIN jobs
    /\ \A i \in Ids \ {a} :
          /\ i \in DOMAIN table' <=> i \in DOMAIN table
          /\ i \in DOMAIN table => table'[i] = table[i]

C25_PerJobIsolation ==
    [][\A w \in Workers :
          (wpc[w] # 0 /\ wpc'[w] # wpc[w] /\ restarts' = restarts)
              => OthersUntouched(wjob[w])]_vars

\* The execution of the other producer's job ended with MissingSender, an
\* execution of the first call's job with a transport failure and one of
\* the second call's job with MissingReceiver or Ok; the first call's job
\* is not complete, its sender is in the map and the caller waits.
C25_Witness ==
    \E a \in ForeignIds, b, c \in Callers :
        /\ a \in DOMAIN jobs /\ jres[a] = "MissingSender" /\ jobs[a].done
        /\ b \in DOMAIN jobs /\ jres[b] = "Transport" /\ ~jobs[b].done
        /\ b \in DOMAIN table /\ table[b] = b
        /\ CStep(b) = "await"
        /\ c # b /\ c \in DOMAIN jobs /\ jres[c] \in {"MissingReceiver", "Ok"}
        /\ jobs[c].done

\* C26: the cross-restart gap.  When the process has restarted while a
\* returning call was waiting for its enqueued job, no response having been
\* sent to it, then from there on the map has no sender under the job's id,
\* every execution of the job that looks its id up returns MissingSender,
\* and no response to the job is sent to any call.
InGap(c) ==
    /\ ckind[c] \in Returning
    /\ cres[c] = "crashed"
    /\ cuuid[c] \in DOMAIN jobs
    /\ chan[c].val = NoResponse

\* C26 as the specification states it: whenever the restart leaves a
\* returning call's enqueued job without its waiter, the job is still in the
\* queue for the engine to execute (and every lookup of its id from then on
\* returns MissingSender).
C26_StillExecuted ==
    [][\A c \in Called : (~InGap(c) /\ InGap(c)') =>
          ~jobs'[cuuid[c]].done]_vars

\* C26, amended: the job may already be complete when the process restarts
\* (between job.complete() and the send), and then it is not executed again;
\* in every case the map has no sender for it, every lookup returns
\* MissingSender and no response to the job is sent to any call.
C26_CrossRestartGap ==
    /\ [](\A c \in Called : InGap(c) =>
            /\ cuuid[c] \notin DOMAIN table
            /\ \A w \in Workers : wsender[w] # c
            /\ delivered[cuuid[c]] = 0
            /\ \A d \in Called : chan[d].val.job # cuuid[c])
    /\ [][\A c \in Called : InGap(c) =>
            /\ InGap(c)'
            /\ resolves'[cuuid[c]] # resolves[cuuid[c]] =>
                  /\ jres'[cuuid[c]] = "MissingSender"
                  /\ table' = table
                  /\ chan' = chan]_vars

\* After the restart the job of the lost call was executed: it received an
\* accepted status, was marked complete, and its execution returned
\* MissingSender.
C26_Witness ==
    \E c \in Called :
        /\ InGap(c)
        /\ restarts >= 1
        /\ log[cuuid[c]] # <<>>
        /\ jobs[cuuid[c]].done
        /\ resolves[cuuid[c]] = 1
        /\ jres[cuuid[c]] = "MissingSender"

\* C27: the table invariant.  Every id in the map was put there by a
\* spawn_returning or spawn_returning_cfg call, whose id it is and whose
\* sender it holds, and no execution has looked the id up or sent a response
\* for it yet; no step of a spawn or spawn_cfg call and no step of an
\* execution of http changes the map or looks an id up.
FireAndForgetStep(c) ==
    /\ ckind'[c] \in Kinds \ Returning
    /\ <<ckind'[c], cpc'[c], cres'[c], cins'[c]>> #
          <<ckind[c], cpc[c], cres[c], cins[c]>>
HttpStep(w) ==
    \/ wpc[w] # 0 /\ jobs[wjob[w]].name = "http" /\ wpc'[w] # wpc[w]
    \/ wpc[w] = 0 /\ wpc'[w] # 0 /\ jobs[wjob'[w]].name = "http"

C27_TableInvariant ==
    /\ [](\A i \in DOMAIN table :
            /\ table[i] \in Called
            /\ ckind[table[i]] \in Returning
            /\ cuuid[table[i]] = i
            /\ cpc[table[i]] > 1
            /\ resolves[i] = 0
            /\ delivered[i] = 0
            /\ chan[table[i]].val = NoResponse)
    /\ [][(restarts' = restarts /\
           (\/ \E c \in Calls : FireAndForgetStep(c)
            \/ \E w \in Workers : HttpStep(w)))
              => table' = table /\ resolves' = resolves]_vars

\* The sender of a returning call is in the map, its job not yet looked up,
\* while a spawn call has returned and its job has been completed by http.
C27_Witness ==
    \E c, d \in Called :
        /\ ckind[c] \in Returning
        /\ cuuid[c] \in DOMAIN table
        /\ cuuid[c] \in DOMAIN jobs
        /\ ckind[d] \in Kinds \ Returning
        /\ cres[d] = "Ok"
        /\ jobs[cuuid[d]].done
        /\ DOMAIN table = {cuuid[c]}

\* C28: delivered implies complete.  A job for which a response was sent to
\* a waiter, or was received by one, is complete.  An execution whose
\* job.complete() fails ends there with that error: the job is not complete,
\* the map and the channels are as they were, nothing is looked up or sent;
\* and when it is the job of a call that waits, the call's sender is in the
\* map before and after, with nothing delivered.
CompleteFails(w) ==
    /\ WStep(w) = "complete"
    /\ wpc'[w] # wpc[w]
    /\ restarts' = restarts
    /\ ~jobs'[wjob[w]].done

C28_DeliveredImpliesComplete ==
    /\ [](\A j \in Ids : delivered[j] > 0 => j \in DOMAIN jobs /\ jobs[j].done)
    /\ [](\A c \in Called : chan[c].val # NoResponse => jobs[cuuid[c]].done)
    /\ [][\A w \in Workers : CompleteFails(w) =>
            /\ wpc'[w] = 0
            /\ jres'[wjob[w]] = "CompleteErr"
            /\ table' = table
            /\ chan' = chan
            /\ resolves' = resolves
            /\ delivered' = delivered
            /\ delivered[wjob[w]] = 0
            /\ \A c \in CallsOf(wjob[w]) :
                  (CStep(c) = "await" /\ jobs[wjob[w]].name = "http_response")
                      => /\ wjob[w] \in DOMAIN table'
                         /\ table'[wjob[w]] = c
                         /\ chan'[c].val = NoResponse]_vars

\* The job of a returning call got two accepted answers: the completion
\* failed after the first, and the second execution completed the job and
\* delivered its response, which the call returned.
C28_Witness ==
    \E c \in Called :
        /\ ckind[c] \in Returning
        /\ cres[c] = "Ok"
        /\ Len(log[cuuid[c]]) = 2
        /\ AcceptedBySomeVariant(builder[c].policy, log[cuuid[c]][1])
        /\ chan[c].val = Response(c, 2)
        /\ jobs[cuuid[c]].done
        /\ delivered[cuuid[c]] = 1
        /\ resolves[cuuid[c]] = 1

\* C29: no error after the enqueue.  A returning call whose job was enqueued
\* has not returned, has returned Ok with a response, or is gone with its
\* caller or its process: it never returns an error, and no call ever
\* returns SpawnError::Receive.  A worker that holds a sender taken out of
\* the map is at its send, which it can always do, so the sender of a
\* waiting call is in the map or about to be sent through.  A call whose job
\* has used up its attempts without an accepted response stays at its
\* await: its sender is in the map, nothing has been sent, and the call
\* cannot return.
Waits(c) == ckind[c] \in Returning /\ CStep(c) = "await"
BudgetSpent(j) ==
    /\ j \in DOMAIN jobs
    /\ jobs[j].attempts = 0
    /\ ~jobs[j].done
    /\ ~Running(j)

C29_NoErrorAfterEnqueue ==
    /\ \A c \in Called :
          /\ cres[c] # "Receive"
          /\ (ckind[c] \in Returning /\ clast[c] = "Ok") =>
                /\ cres[c] \in {"none", "Ok", "cancelled", "crashed"}
                /\ cres[c] = "none" => CStep(c) = "await"
                /\ cres[c] = "Ok" => chan[c].val # NoResponse
          /\ Waits(c) => (chan[c].val # NoResponse \/ SenderAlive(c))
          /\ (Waits(c) /\ BudgetSpent(cuuid[c])) =>
                /\ cuuid[c] \in DOMAIN table
                /\ chan[c].val = NoResponse
                /\ ~ENABLED Await(c)
    /\ \A w \in Workers : wsender[w] # 0 =>
          /\ WStep(w) = "send"
          /\ ENABLED Send(w)

\* A returning call waits for a job that has used up its attempts, the last
\* answer not accepted: the call has not returned and its sender is still in
\* the map.
C29_Witness ==
    \E c \in Called :
        /\ Waits(c)
        /\ BudgetSpent(cuuid[c])
        /\ log[cuuid[c]] # <<>>
        /\ ~AcceptedBySomeVariant(builder[c].policy, Last(log[cuuid[c]]))
        /\ cuuid[c] \in DOMAIN table
        /\ cres[c] = "none"
====
